---- MODULE Spec2Model ----
(***************************************************************************)
(* postcss-dedup (packages/postcss-dedup/index.mjs): the plugin's Once     *)
(* handler run over a PostCSS syntax tree.                                 *)
(*                                                                         *)
(* The tree is built by the parser in document order, then Once runs       *)
(* Pass 1 (whole-rule dedup), Pass 2 (declaration-level dedup) and the     *)
(* cleanup of empty at-rules.  Each call of a walk callback is one step;   *)
(* nodes are removed while the walk that visits them is still running, so  *)
(* the walk's iterator indexes are part of the state.  Once is then run a  *)
(* second time on its own output.                                          *)
(*                                                                         *)
(* Strings are sequences of one-character strings, so that the keys the    *)
(* code builds by concatenation are built here by concatenation too.       *)
(***************************************************************************)
EXTENDS Integers, Sequences, FiniteSets, TLC

\* ------------------------------------------------------------------ bounds

\* Most nodes (rules, at-rules, declarations) the parser puts under the root.
MaxNodes == 5

Root == 0
None == -1

\* ----------------------------------------------------------------- strings

\* UTF-16 code units of the characters the vocabularies use: Array.sort()
\* without a comparator orders strings by code unit.
CharCode(c) ==
    CASE c = "!" -> 33
      [] c = "1" -> 49
      [] c = "2" -> 50
      [] c = ":" -> 58
      [] c = ";" -> 59
      [] c = "a" -> 97
      [] c = "b" -> 98
      [] c = "c" -> 99
      [] c = "d" -> 100
      [] c = "e" -> 101
      [] c = "i" -> 105
      [] c = "m" -> 109
      [] c = "n" -> 110
      [] c = "o" -> 111
      [] c = "p" -> 112
      [] c = "r" -> 114
      [] c = "t" -> 116
      [] c = "u" -> 117
      [] c = "l" -> 108
      [] c = "x" -> 120
      [] c = "y" -> 121
      [] c = "|" -> 124

RECURSIVE StrLess(_, _)
\* s < t for two strings, as JavaScript compares them.
StrLess(s, t) ==
    IF t = <<>> THEN FALSE
    ELSE IF s = <<>> THEN TRUE
    ELSE IF Head(s) = Head(t) THEN StrLess(Tail(s), Tail(t))
    ELSE CharCode(Head(s)) < CharCode(Head(t))

RECURSIVE Insert(_, _)
Insert(x, sorted) ==
    IF sorted = <<>> THEN <<x>>
    ELSE IF StrLess(Head(sorted), x) THEN <<Head(sorted)>> \o Insert(x, Tail(sorted))
    ELSE <<x>> \o sorted

RECURSIVE Sort(_)
\* decls.sort().  The sorted tail is bound as a value, so it is computed once.
Sort(strs) ==
    IF strs = <<>> THEN <<>>
    ELSE CHOOSE y \in {Insert(Head(strs), sorted) : sorted \in {Sort(Tail(strs))}} : TRUE

RECURSIVE Join(_, _)
\* Array.join(sep)
Join(strs, sep) ==
    IF strs = <<>> THEN <<>>
    ELSE IF Len(strs) = 1 THEN strs[1]
    ELSE strs[1] \o sep \o Join(Tail(strs), sep)

ImportantSuffix == <<"!", "i", "m", "p", "o", "r", "t", "a", "n", "t">>
RulePrefix == <<"r", "u", "l", "e", "|">>
AtRulePrefix == <<"a", "t", "r", "u", "l", "e", "|">>

\* ------------------------------------------------------------ vocabularies

\* The texts a document is written with.  A document uses one vocabulary.
Decl(p, v, i) == [prop |-> p, value |-> v, important |-> i]
At(n, p, b) == [name |-> n, params |-> p, body |-> b]

\* bare: rules may stand at the top level; nested: at-rules may stand inside
\* at-rules; mixed: at-rules may hold declarations; nesting: rules may stand
\* inside rules (CSS nesting); limit: the most nodes of a document.

\* One selector, one at-rule, two declarations, in every arrangement.
VocabPlain ==
    [selectors |-> {<<"a">>},
     atrules   |-> {At(<<"m">>, <<"x">>, TRUE)},
     decls     |-> {Decl(<<"c">>, <<"1">>, FALSE), Decl(<<"d">>, <<"2">>, FALSE)},
     bare |-> TRUE, nested |-> TRUE, mixed |-> TRUE, limit |-> MaxNodes,
     nesting |-> FALSE]

\* Two selectors and no at-rule: longer runs of rules and declarations.
VocabRules ==
    [selectors |-> {<<"a">>, <<"b">>},
     atrules   |-> {},
     decls     |-> {Decl(<<"c">>, <<"1">>, FALSE), Decl(<<"d">>, <<"2">>, FALSE)},
     bare |-> TRUE, nested |-> FALSE, mixed |-> FALSE, limit |-> MaxNodes + 1,
     nesting |-> FALSE]

\* A namespaced selector n|a, and at-rule parameters that hold a '|'.
VocabNamespace ==
    [selectors |-> {<<"a">>, <<"n", "|", "a">>},
     atrules   |-> {At(<<"m">>, <<"x">>, TRUE), At(<<"m">>, <<"x", "|", "n">>, TRUE)},
     decls     |-> {Decl(<<"c">>, <<"1">>, FALSE)},
     bare |-> FALSE, nested |-> FALSE, mixed |-> FALSE, limit |-> MaxNodes + 1,
     nesting |-> FALSE]

\* A selector and a value that hold the characters the keys are joined with.
VocabJoined ==
    [selectors |-> {<<"a">>, <<"a", "|", "c", ":", "1">>},
     atrules   |-> {},
     decls     |-> {Decl(<<"c">>, <<"1", "|", "d", ":", "2">>, FALSE),
                    Decl(<<"d">>, <<"2">>, FALSE)},
     bare |-> TRUE, nested |-> FALSE, mixed |-> FALSE, limit |-> MaxNodes + 2,
     nesting |-> FALSE]

\* At-rule parameters and a value that hold the characters the keys are
\* joined with; no rules.
VocabAtJoined ==
    [selectors |-> {},
     atrules   |-> {At(<<"m">>, <<"x">>, TRUE),
                    At(<<"m">>, <<"x", "|", "c", ":", "1">>, TRUE)},
     decls     |-> {Decl(<<"c">>, <<"1", "|", "d", ":", "2">>, FALSE),
                    Decl(<<"d">>, <<"2">>, FALSE)},
     bare |-> FALSE, nested |-> FALSE, mixed |-> TRUE, limit |-> MaxNodes + 1,
     nesting |-> FALSE]

\* One property with two values and the important flag, and an at-rule
\* without a body (@i y;).
VocabCascade ==
    [selectors |-> {<<"a">>},
     atrules   |-> {At(<<"i">>, <<"y">>, FALSE)},
     decls     |-> {Decl(<<"c">>, <<"1">>, FALSE), Decl(<<"c">>, <<"2">>, FALSE),
                    Decl(<<"c">>, <<"1">>, TRUE)},
     bare |-> TRUE, nested |-> FALSE, mixed |-> FALSE, limit |-> MaxNodes,
     nesting |-> FALSE]

\* Rules inside rules, as postcss parses a nested style sheet.
VocabNesting ==
    [selectors |-> {<<"a">>, <<"b">>},
     atrules   |-> {At(<<"m">>, <<"x">>, TRUE)},
     decls     |-> {Decl(<<"c">>, <<"1">>, FALSE)},
     bare |-> TRUE, nested |-> FALSE, mixed |-> FALSE, limit |-> MaxNodes,
     nesting |-> TRUE]

Vocabularies ==
    {VocabPlain, VocabRules, VocabNamespace, VocabJoined, VocabAtJoined,
     VocabCascade}

\* ------------------------------------------------------------------- state

VARIABLES
    vocab,      \* the vocabulary of the document being parsed
    ast,        \* node id -> node: the PostCSS tree, detached nodes included
    cur,        \* parser: the innermost open container
    pc,         \* "parse", "pass1", "pass2", "cleanup", "done"
    run,        \* 1: Once on the parsed document, 2: Once on its own output
    walk,       \* the running walk: frames [node, index], outermost first
    seen,       \* Pass 1: hashes of the fingerprints seen
    seenDecls,  \* Pass 2: group key -> serialized declarations seen
    changed,    \* cleanup: the last scan removed something
    scans,      \* cleanup scans made in this run
    input,      \* the tree as parsed (history)
    out1,       \* the tree the first run returned (history)
    first,      \* seen entry -> the node that added it (history)
    why,        \* removed node -> the stage and the entry it fell to (history)
    visits,     \* stage -> the nodes its callback was called with (history)
    cli         \* cli.mjs: the batch tool's position, inputs and effects

vars == <<vocab, ast, cur, pc, run, walk, seen, seenDecls, changed, scans,
          input, out1, first, why, visits, cli>>

Ids == DOMAIN ast

\* ----------------------------------------------------------- tree (PostCSS)

NewNode(t, parent) ==
    [type |-> t, parent |-> parent, body |-> (t # "decl"), nodes |-> <<>>,
     name |-> <<>>, params |-> <<>>, selector |-> <<>>,
     prop |-> <<>>, value |-> <<>>, important |-> FALSE]

\* Container.index(child)
IndexOf(t, c, id) == CHOOSE i \in 1..Len(t[c].nodes) : t[c].nodes[i] = id

\* A removal that fills the gap with the last element of the list.
RemoveAtSwap(s, i) ==
    [k \in 1..(Len(s) - 1) |-> IF k = i THEN s[Len(s)] ELSE s[k]]

RemoveAt(s, i) == SubSeq(s, 1, i - 1) \o SubSeq(s, i + 1, Len(s))

\* Node.remove(): detach the node from its parent; its own children stay
\* with it.
Remove(t, id) ==
    LET p == t[id].parent IN
    IF p = None THEN t
    ELSE [t EXCEPT ![p].nodes = RemoveAt(@, IndexOf(t, p, id)),
                   ![id].parent = None]

\* A removal that leaves the running iterators where they stand.
StaleIndexes(w, t, id) == w

\* Container.removeChild's part on the iterators: every running iterator of
\* the parent that stands at or after the removed child steps back by one.
Reindex(w, t, id) ==
    LET p == t[id].parent IN
    IF p = None THEN w
    ELSE LET k == IndexOf(t, p, id) IN
         [f \in DOMAIN w |->
            IF w[f].node = p /\ w[f].index >= k
            THEN [w[f] EXCEPT !.index = @ - 1] ELSE w[f]]

RECURSIVE Advance(_, _)
\* Container.each's loop test and increment: leave every iterator that has
\* run past its container's last child, stepping the enclosing one.
Advance(w, t) ==
    IF w = <<>> THEN w
    ELSE LET top == w[Len(w)] IN
         IF top.index <= Len(t[top.node].nodes) THEN w
         ELSE LET rest == SubSeq(w, 1, Len(w) - 1) IN
              IF rest = <<>> THEN rest
              ELSE Advance([rest EXCEPT ![Len(rest)].index = @ + 1], t)

\* Container.walk after the callback returned for `id`: walk into the node
\* if it has a child list (attached or not), else step to the next sibling.
Descend(w, t, id) ==
    IF t[id].type # "decl" /\ t[id].body
    THEN Advance(Append(w, [node |-> id, index |-> 1]), t)
    ELSE Advance([w EXCEPT ![Len(w)].index = @ + 1], t)

\* root.walk(...) about to make its first call
StartWalk(t) == Advance(<<[node |-> Root, index |-> 1]>>, t)

\* The node the running walk hands to the callback next.
Current == ast[walk[Len(walk)].node].nodes[walk[Len(walk)].index]

\* ------------------------------------------------------- helpers (index.mjs)

RECURSIVE ContextParts(_, _)
\* getAtRuleContext's loop: the "name:params" of every at-rule ancestor,
\* outermost first.  Ancestors that are rules add nothing.
ContextParts(t, id) ==
    LET p == t[id].parent IN
    IF p = None \/ t[p].type = "root" THEN <<>>
    ELSE IF t[p].type = "atrule"
         THEN Append(ContextParts(t, p), t[p].name \o <<":">> \o t[p].params)
         ELSE ContextParts(t, p)

\* A context that also tells container instances apart: the chain, then one
\* "#" for every node parsed before the node's parent.
getAtRuleContextPerInstance(t, id) ==
    Join(ContextParts(t, id), <<"|">>) \o [k \in 1..t[id].parent |-> "#"]

getAtRuleContext(t, id) == Join(ContextParts(t, id), <<"|">>)

\* serializeDecl without the marker of the important flag.
serializeDeclUnflagged(d) == d.prop \o <<":">> \o d.value

serializeDecl(d) ==
    d.prop \o <<":">> \o d.value \o (IF d.important THEN ImportantSuffix ELSE <<>>)

\* The direct children of `id` that are declarations, in order.
DeclsOf(t, id) == SelectSeq(t[id].nodes, LAMBDA c : t[c].type = "decl")

\* serializeDeclarations without its sort: the declarations in source order.
serializeDeclarationsInOrder(t, id) ==
    LET ds == DeclsOf(t, id) IN
    Join([i \in 1..Len(ds) |-> serializeDecl(t[ds[i]])], <<";">>)

serializeDeclarations(t, id) ==
    LET ds == DeclsOf(t, id) IN
    CHOOSE y \in {Join(sorted, <<";">>) :
                   sorted \in {Sort([i \in 1..Len(ds) |-> serializeDecl(t[ds[i]])])}} : TRUE

\* SHA-256 as a collision-free digest: the tagged text itself.
hash(str) == <<"sha256">> \o str

\* ------------------------------------------------------------------ parser

Nodes == Cardinality(Ids) - 1

AddChild(t, parent, node) ==
    LET id == Cardinality(DOMAIN t) IN
    [i \in DOMAIN t \cup {id} |->
        IF i = id THEN node
        ELSE IF i = parent THEN [t[i] EXCEPT !.nodes = Append(@, id)]
        ELSE t[i]]

Idle == UNCHANGED <<pc, run, walk, seen, seenDecls, changed, scans, input,
                    out1, first, why, visits, cli>>

\* selector { ...
ParseRule(sel) ==
    /\ pc = "parse" /\ Nodes < vocab.limit
    /\ \/ ast[cur].type = "atrule"
       \/ ast[cur].type = "root" /\ vocab.bare
       \/ ast[cur].type = "rule" /\ vocab.nesting
    /\ ast' = AddChild(ast, cur, [NewNode("rule", cur) EXCEPT !.selector = sel])
    /\ cur' = Cardinality(Ids)
    /\ UNCHANGED vocab /\ Idle

\* @name params { ...   or   @name params;
ParseAtRule(a) ==
    /\ pc = "parse" /\ Nodes < vocab.limit
    /\ ast[cur].type = "root" \/ (ast[cur].type = "atrule" /\ vocab.nested)
    /\ ast' = AddChild(ast, cur,
                [NewNode("atrule", cur) EXCEPT !.name = a.name,
                                               !.params = a.params,
                                               !.body = a.body])
    /\ cur' = IF a.body THEN Cardinality(Ids) ELSE cur
    /\ UNCHANGED vocab /\ Idle

\* prop: value [!important];
ParseDecl(d) ==
    /\ pc = "parse" /\ Nodes < vocab.limit
    /\ ast[cur].type = "rule" \/ (ast[cur].type = "atrule" /\ vocab.mixed)
    /\ ast' = AddChild(ast, cur,
                [NewNode("decl", cur) EXCEPT !.prop = d.prop,
                                             !.value = d.value,
                                             !.important = d.important])
    /\ UNCHANGED <<cur, vocab>> /\ Idle

\* }
ParseEnd ==
    /\ pc = "parse" /\ cur # Root
    /\ cur' = ast[cur].parent
    /\ UNCHANGED <<ast, vocab>> /\ Idle

\* ---------------------------------------------------------- Once: Pass 1

\* Once with a seen set that outlives the call (a set of the module).
OnceKeepingSeen ==
    /\ pc = "parse" /\ cur = Root
    /\ pc' = "pass1"
    /\ walk' = StartWalk(ast)
    /\ input' = ast
    /\ UNCHANGED <<visits, cli, vocab, ast, cur, run, seen, seenDecls, changed, scans,
                   out1, first, why>>

\* The end of input: postcss hands the root to Once, which starts Pass 1.
Once ==
    /\ pc = "parse" /\ cur = Root
    /\ pc' = "pass1"
    /\ seen' = {}
    /\ walk' = StartWalk(ast)
    /\ input' = ast
    /\ UNCHANGED <<visits, cli, vocab, ast, cur, run, seenDecls, changed, scans, out1,
                   first, why>>

\* The test with its last part alone: every child, if any, is a declaration.
NoOtherChild(t, id) ==
    /\ t[id].type = "atrule"
    /\ \A i \in 1..Len(t[id].nodes) : t[t[id].nodes[i]].type = "decl"

\* node.nodes !== undefined && node.nodes.length > 0 && every child is a decl
DeclOnly(t, id) ==
    /\ t[id].type = "atrule" /\ t[id].body
    /\ Len(t[id].nodes) > 0
    /\ \A i \in 1..Len(t[id].nodes) : t[t[id].nodes[i]].type = "decl"

\* The fingerprint Pass 1 builds for a rule or a declaration-only at-rule.
Pass1Key(t, id) ==
    IF t[id].type = "rule"
    THEN RulePrefix \o getAtRuleContext(t, id) \o <<"|">> \o t[id].selector
            \o <<"|">> \o serializeDeclarations(t, id)
    ELSE AtRulePrefix \o getAtRuleContext(t, id) \o <<"|">> \o t[id].name
            \o <<":">> \o t[id].params \o <<"|">> \o serializeDeclarations(t, id)

\* Whether Pass 1's callback goes on to build a key for the node.
Pass1Keyed(t, id) ==
    /\ t[id].parent # None
    /\ t[id].type = "rule" \/ DeclOnly(t, id)

\* History: `id` was removed at `stage` because of node `by`.
Note(w, id, stage, by) ==
    [i \in DOMAIN w \cup {id} |->
        IF i = id THEN [stage |-> stage, run |-> run, by |-> by] ELSE w[i]]

\* History: `id` added `entry` to the seen set.
Mark(f, entry, id) ==
    [e \in DOMAIN f \cup {entry} |-> IF e = entry THEN id ELSE f[e]]

\* History: the callback of `stage` was called with the nodes `ids`.
Visit(v, stage, ids) == [v EXCEPT ![stage] = @ \o ids]

NoVisits == [pass1 |-> <<>>, pass2 |-> <<>>, cleanup |-> <<>>]

\* History: the node that added `entry`, if this record knows it.
Who(f, entry) == IF entry \in DOMAIN f THEN f[entry] ELSE None

\* One call of Pass 1's walk callback, and the walk's step after it.
Pass1Visit ==
    /\ pc = "pass1" /\ walk # <<>>
    /\ LET node == Current IN
       IF ~Pass1Keyed(ast, node)
       THEN /\ walk' = Descend(walk, ast, node)
            /\ UNCHANGED <<ast, seen, first, why>>
       ELSE LET h == hash(Pass1Key(ast, node)) IN
            IF h \in seen
            THEN /\ ast' = Remove(ast, node)
                 /\ walk' = Descend(Reindex(walk, ast, node), ast', node)
                 /\ why' = Note(why, node, "pass1", Who(first, h))
                 /\ UNCHANGED <<seen, first>>
            ELSE /\ seen' = seen \cup {h}
                 /\ first' = Mark(first, h, node)
                 /\ walk' = Descend(walk, ast, node)
                 /\ UNCHANGED <<ast, why>>
    /\ visits' = Visit(visits, "pass1", <<Current>>)
    /\ UNCHANGED <<cli, vocab, cur, pc, run, seenDecls, changed, scans, input, out1>>

\* Pass 1's walk has returned: deduplicateDeclarations(root) starts.
Pass1Done ==
    /\ pc = "pass1" /\ walk = <<>>
    /\ pc' = "pass2"
    /\ seenDecls' = <<>>
    /\ first' = <<>>
    /\ walk' = StartWalk(ast)
    /\ UNCHANGED <<visits, cli, vocab, ast, cur, run, seen, changed, scans, input, out1, why>>

\* ---------------------------------------------------------- Once: Pass 2

GroupKey(t, id) == getAtRuleContext(t, id) \o <<"|">> \o t[id].selector

\* A loop that adds every declaration to the group's set and removes none.
ScanDeclsKeepingAll(t, ds, seenSet, toRemove) ==
    [seen     |-> seenSet \cup {serializeDecl(t[ds[i]]) : i \in 1..Len(ds)},
     toRemove |-> toRemove]

RECURSIVE ScanDecls(_, _, _, _)
\* The loop over node.nodes: the declarations whose serialized form the
\* group has seen go to toRemove, the others are added to the group's set.
ScanDecls(t, ds, seenSet, toRemove) ==
    IF ds = <<>> THEN [seen |-> seenSet, toRemove |-> toRemove]
    ELSE LET key == serializeDecl(t[Head(ds)]) IN
         IF key \in seenSet
         THEN ScanDecls(t, Tail(ds), seenSet, Append(toRemove, Head(ds)))
         ELSE ScanDecls(t, Tail(ds), seenSet \cup {key}, toRemove)

RECURSIVE RemoveAll(_, _)
RemoveAll(t, ids) ==
    IF ids = <<>> THEN t ELSE RemoveAll(Remove(t, Head(ids)), Tail(ids))

SeenOf(g) == IF g \in DOMAIN seenDecls THEN seenDecls[g] ELSE {}

\* Whether Pass 2's callback goes on to build a group key for the node.
Pass2Keyed(t, id) == t[id].parent # None /\ t[id].type = "rule"

RECURSIVE MarkAll(_, _, _, _)
MarkAll(f, t, g, ds) ==
    IF ds = <<>> THEN f
    ELSE LET e == <<g, serializeDecl(t[Head(ds)])>> IN
         MarkAll(IF e \in DOMAIN f THEN f ELSE Mark(f, e, Head(ds)), t, g, Tail(ds))

RECURSIVE NoteAll(_, _, _, _, _)
NoteAll(w, f, t, g, ds) ==
    IF ds = <<>> THEN w
    ELSE NoteAll(Note(w, Head(ds), "pass2decl", f[<<g, serializeDecl(t[Head(ds)])>>]),
                 f, t, g, Tail(ds))

\* One call of deduplicateDeclarations' walk callback, and the walk's step
\* after it.
Pass2Visit ==
    /\ pc = "pass2" /\ walk # <<>>
    /\ LET node == Current IN
       IF ~Pass2Keyed(ast, node)
       THEN /\ walk' = Descend(walk, ast, node)
            /\ UNCHANGED <<ast, seenDecls, first, why>>
       ELSE \E g \in {GroupKey(ast, node)} :
            \E r \in {ScanDecls(ast, DeclsOf(ast, node), SeenOf(g), <<>>)} :
            \E stripped \in {RemoveAll(ast, r.toRemove)} :
            \E marks \in {MarkAll(first, ast, g, DeclsOf(ast, node))} :
            \E notes \in {NoteAll(why, marks, ast, g, r.toRemove)} :
            LET hasDecls == DeclsOf(stripped, node) # <<>>
            IN  /\ seenDecls' = [k \in DOMAIN seenDecls \cup {g} |->
                                    IF k = g THEN r.seen ELSE seenDecls[k]]
                /\ first' = marks
                /\ IF hasDecls
                   THEN /\ ast' = stripped
                        /\ walk' = Descend(walk, ast', node)
                        /\ why' = notes
                   ELSE /\ ast' = Remove(stripped, node)
                        /\ walk' = Descend(Reindex(walk, stripped, node), ast', node)
                        /\ why' = Note(notes, node, "pass2rule", None)
    /\ visits' = Visit(visits, "pass2", <<Current>>)
    /\ UNCHANGED <<cli, vocab, cur, pc, run, seen, changed, scans, input, out1>>

\* deduplicateDeclarations has returned: removeEmptyAtRules(root) starts.
Pass2Done ==
    /\ pc = "pass2" /\ walk = <<>>
    /\ pc' = "cleanup"
    /\ changed' = TRUE
    /\ scans' = 0
    /\ UNCHANGED <<visits, cli, vocab, ast, cur, run, walk, seen, seenDecls, input, out1,
                   first, why>>

\* ---------------------------------------------------------- Once: cleanup

\* An emptiness test that looks at top-level at-rules only.
EmptyTopAtRule(t, id) ==
    t[id].type = "atrule" /\ t[id].body /\ t[id].nodes = <<>> /\ t[id].parent = Root

\* An emptiness test without its `nodes !== undefined` part.
ChildlessAtRule(t, id) == t[id].type = "atrule" /\ t[id].nodes = <<>>

\* An emptiness test that is off by one: length <= 1.
SparseAtRule(t, id) ==
    t[id].type = "atrule" /\ t[id].body /\ Len(t[id].nodes) <= 1

\* atRule.nodes !== undefined && atRule.nodes.length === 0
EmptyAtRule(t, id) == t[id].type = "atrule" /\ t[id].body /\ t[id].nodes = <<>>

RECURSIVE WalkAtRulesUnreset(_, _, _, _)
\* The walk of a loop that does not reset its flag: `changed` stays as the
\* scan before left it.
WalkAtRulesUnreset(t, w, ch, called) ==
    IF w = <<>> THEN [ast |-> t, changed |-> (ch \/ changed), called |-> called]
    ELSE LET node == t[w[Len(w)].node].nodes[w[Len(w)].index]
             also == IF t[node].type = "atrule" THEN Append(called, node)
                     ELSE called
             t2   == Remove(t, node)
         IN
         IF EmptyAtRule(t, node)
         THEN CHOOSE y \in {WalkAtRulesUnreset(n[1], n[2], TRUE, n[3]) :
                             n \in {<<t2, Descend(Reindex(w, t, node), t2, node), also>>}} : TRUE
         ELSE CHOOSE y \in {WalkAtRulesUnreset(t, n[1], ch, n[2]) :
                             n \in {<<Descend(w, t, node), also>>}} : TRUE

RECURSIVE WalkAtRules(_, _, _, _)
\* root.walkAtRules(...) from the walk position w to its end; `called` lists
\* the at-rules the callback was called with.
WalkAtRules(t, w, ch, called) ==
    IF w = <<>> THEN [ast |-> t, changed |-> ch, called |-> called]
    ELSE LET node == t[w[Len(w)].node].nodes[w[Len(w)].index]
             also == IF t[node].type = "atrule" THEN Append(called, node)
                     ELSE called
             t2   == Remove(t, node)
         IN
         IF EmptyAtRule(t, node)
         THEN CHOOSE y \in {WalkAtRules(n[1], n[2], TRUE, n[3]) :
                             n \in {<<t2, Descend(Reindex(w, t, node), t2, node), also>>}} : TRUE
         ELSE CHOOSE y \in {WalkAtRules(t, n[1], ch, n[2]) :
                             n \in {<<Descend(w, t, node), also>>}} : TRUE

RECURSIVE NoteSet(_, _)
NoteSet(w, ids) ==
    IF ids = {} THEN w
    ELSE LET id == CHOOSE i \in ids : TRUE IN
         NoteSet(Note(w, id, "cleanup", None), ids \ {id})

\* One turn of removeEmptyAtRules' while loop: one walk over the at-rules.
CleanupScan ==
    /\ pc = "cleanup" /\ changed
    /\ \E r \in {WalkAtRules(ast, StartWalk(ast), FALSE, <<>>)} :
       /\ ast' = r.ast
       /\ changed' = r.changed
       /\ visits' = Visit(visits, "cleanup", r.called)
       /\ why' = NoteSet(why, {i \in Ids : ast[i].parent # None /\ r.ast[i].parent = None})
    /\ scans' = scans + 1
    /\ UNCHANGED <<cli, vocab, cur, pc, run, walk, seen, seenDecls, input, out1, first>>

\* The while loop ends and Once returns.
CleanupDone ==
    /\ pc = "cleanup" /\ ~changed
    /\ pc' = "done"
    /\ out1' = IF run = 1 THEN ast ELSE out1
    /\ UNCHANGED <<visits, cli, vocab, ast, cur, run, walk, seen, seenDecls, changed, scans,
                   input, first, why>>

\* The plugin is run again on what it returned.
Again ==
    /\ pc = "done" /\ run = 1
    /\ run' = 2
    /\ pc' = "pass1"
    /\ seen' = {}
    /\ first' = <<>>
    /\ visits' = NoVisits
    /\ walk' = StartWalk(ast)
    /\ UNCHANGED <<cli, vocab, ast, cur, seenDecls, changed, scans, input, out1, why>>

\* ----------------------------------------------------------- specification

EmptyDoc == [i \in {Root} |-> NewNode("root", None)]

\* The batch tool with the directory argument `arg` (given or not), the
\* directory readable or not, and its entries: "css" a .css file, "bad" a
\* .css file postcss cannot parse, "other" a file of another name.
Cli(stage, arg, readable, entries) ==
    [stage |-> stage, arg |-> arg, readable |-> readable, entries |-> entries,
     k |-> 0, status |-> None, message |-> "", calls |-> <<>>,
     written |-> <<>>, ins |-> <<>>, outs |-> <<>>]

\* dedup called from a test or a script: no batch tool around it.
NoCli == Cli("off", FALSE, FALSE, <<>>)

Init ==
    /\ cli = NoCli
    /\ vocab \in Vocabularies
    /\ ast = EmptyDoc
    /\ cur = Root
    /\ pc = "parse"
    /\ run = 1
    /\ walk = <<>>
    /\ seen = {}
    /\ seenDecls = <<>>
    /\ changed = FALSE
    /\ scans = 0
    /\ input = EmptyDoc
    /\ out1 = EmptyDoc
    /\ first = <<>>
    /\ why = <<>>
    /\ visits = NoVisits

Parse ==
    \/ \E sel \in vocab.selectors : ParseRule(sel)
    \/ \E a \in vocab.atrules : ParseAtRule(a)
    \/ \E d \in vocab.decls : ParseDecl(d)
    \/ ParseEnd

Next ==
    \/ Parse
    \/ Once
    \/ Pass1Visit
    \/ Pass1Done
    \/ Pass2Visit
    \/ Pass2Done
    \/ CleanupScan
    \/ CleanupDone

Spec == Init /\ [][Next]_vars

\* Once runs synchronously on one thread: postcss parses to the end of the
\* input and every step of Once is followed by the next one.
InitFair ==
    /\ cli = NoCli
    /\ vocab = [VocabPlain EXCEPT !.limit = MaxNodes - 1]
    /\ ast = EmptyDoc
    /\ cur = Root
    /\ pc = "parse"
    /\ run = 1
    /\ walk = <<>>
    /\ seen = {}
    /\ seenDecls = <<>>
    /\ changed = FALSE
    /\ scans = 0
    /\ input = EmptyDoc
    /\ out1 = EmptyDoc
    /\ first = <<>>
    /\ why = <<>>
    /\ visits = NoVisits

SpecFair == InitFair /\ [][Next]_vars /\ WF_vars(Next)

\* Once run a second time on its own output.
NextTwice ==
    \/ Next
    \/ Again

SpecTwice == Init /\ [][NextTwice]_vars

\* Once with a Pass 1 that leaves the Rules to Pass 2: the callback without
\* its branch for node.type === "rule", run on the same parsed document after
\* Once has returned.  pc "lean1" is that Pass 1; Pass 2 and the cleanup are
\* those of Once.
Pass1KeyedLean(t, id) == t[id].parent # None /\ DeclOnly(t, id)

\* The document as parsed is handed to the pipeline without the branch.
Restart ==
    /\ pc = "done" /\ run = 1
    /\ run' = 2
    /\ pc' = "lean1"
    /\ ast' = input
    /\ seen' = {}
    /\ first' = <<>>
    /\ why' = <<>>
    /\ visits' = NoVisits
    /\ walk' = StartWalk(input)
    /\ UNCHANGED <<cli, vocab, cur, seenDecls, changed, scans, input, out1>>

Pass1VisitLean ==
    /\ pc = "lean1" /\ walk # <<>>
    /\ LET node == Current IN
       IF ~Pass1KeyedLean(ast, node)
       THEN /\ walk' = Descend(walk, ast, node)
            /\ UNCHANGED <<ast, seen, first, why>>
       ELSE LET h == hash(Pass1Key(ast, node)) IN
            IF h \in seen
            THEN /\ ast' = Remove(ast, node)
                 /\ walk' = Descend(Reindex(walk, ast, node), ast', node)
                 /\ why' = Note(why, node, "pass1", Who(first, h))
                 /\ UNCHANGED <<seen, first>>
            ELSE /\ seen' = seen \cup {h}
                 /\ first' = Mark(first, h, node)
                 /\ walk' = Descend(walk, ast, node)
                 /\ UNCHANGED <<ast, why>>
    /\ visits' = Visit(visits, "pass1", <<Current>>)
    /\ UNCHANGED <<cli, vocab, cur, pc, run, seenDecls, changed, scans, input, out1>>

Pass1DoneLean ==
    /\ pc = "lean1" /\ walk = <<>>
    /\ pc' = "pass2"
    /\ seenDecls' = <<>>
    /\ first' = <<>>
    /\ walk' = StartWalk(ast)
    /\ UNCHANGED <<visits, cli, vocab, ast, cur, run, seen, changed, scans, input, out1, why>>

NextLean ==
    \/ Next
    \/ Restart
    \/ Pass1VisitLean
    \/ Pass1DoneLean

SpecLean == Init /\ [][NextLean]_vars

\* Once on a style sheet with nested rules.
InitNesting ==
    /\ cli = NoCli
    /\ vocab = VocabNesting
    /\ ast = EmptyDoc
    /\ cur = Root
    /\ pc = "parse"
    /\ run = 1
    /\ walk = <<>>
    /\ seen = {}
    /\ seenDecls = <<>>
    /\ changed = FALSE
    /\ scans = 0
    /\ input = EmptyDoc
    /\ out1 = EmptyDoc
    /\ first = <<>>
    /\ why = <<>>
    /\ visits = NoVisits

SpecNesting == InitNesting /\ [][Next]_vars

\* ------------------------------------------------------------ batch (cli.mjs)

\* The documents of a batch: one selector, one at-rule, one declaration.
VocabBatch ==
    [selectors |-> {<<"a">>},
     atrules   |-> {At(<<"m">>, <<"x">>, TRUE)},
     decls     |-> {Decl(<<"c">>, <<"1">>, FALSE)},
     bare |-> TRUE, nested |-> FALSE, mixed |-> TRUE, limit |-> MaxNodes - 3,
     nesting |-> FALSE]

Kinds == {"css", "bad", "other"}

\* Directories of up to three entries.
Directories ==
    {<<>>} \cup {<<x>> : x \in Kinds} \cup {<<x, y>> : x, y \in Kinds}
        \cup {<<x, y, z>> : x, y, z \in Kinds}

\* readdirSync(dir).filter((f) => f.endsWith(".css"))
CssFiles == SelectSeq(cli.entries, LAMBDA e : e # "other")

\* process.exit(status) after console.error / console.log, or the exit of a
\* process whose top-level await threw.
Exit(status, message) ==
    [cli EXCEPT !.stage = "exit", !.status = status, !.message = message]

EngineIdle == UNCHANGED <<vocab, ast, cur, pc, run, walk, seen, seenDecls,
                          changed, scans, input, out1, first, why, visits>>

\* if (!dir) { usage; process.exit(1) }
CliArgs ==
    /\ cli.stage = "start"
    /\ cli' = IF ~cli.arg THEN Exit(1, "usage")
              ELSE [cli EXCEPT !.stage = "list"]
    /\ EngineIdle

\* The listing without the test for no .css file.
CliListUnchecked ==
    /\ cli.stage = "list"
    /\ cli' = IF ~cli.readable THEN Exit(1, "unreadable")
              ELSE [cli EXCEPT !.stage = "loop", !.k = 1]
    /\ EngineIdle

\* readdirSync in its try/catch, then the test for no .css file.
CliList ==
    /\ cli.stage = "list"
    /\ cli' = IF ~cli.readable THEN Exit(1, "unreadable")
              ELSE IF Len(CssFiles) = 0 THEN Exit(1, "nofiles")
              ELSE [cli EXCEPT !.stage = "loop", !.k = 1]
    /\ EngineIdle

\* The loop's next file with the failure of dedup caught and the file passed
\* over.
CliReadSwallowing ==
    /\ cli.stage = "loop" /\ cli.k <= Len(CssFiles)
    /\ IF CssFiles[cli.k] = "bad"
       THEN /\ cli' = [cli EXCEPT !.k = @ + 1, !.calls = Append(@, cli.k)]
            /\ EngineIdle
       ELSE /\ cli' = [cli EXCEPT !.stage = "file", !.calls = Append(@, cli.k)]
            /\ pc' = "parse"
            /\ ast' = EmptyDoc
            /\ cur' = Root
            /\ first' = <<>>
            /\ why' = <<>>
            /\ visits' = NoVisits
            /\ UNCHANGED <<vocab, run, walk, seen, seenDecls, changed, scans,
                           input, out1>>

\* The loop's next file: readFileSync, then dedup(original) is called and
\* postcss starts to parse; on a file it cannot parse it throws, the await
\* rethrows at the top level and the process ends.
CliRead ==
    /\ cli.stage = "loop" /\ cli.k <= Len(CssFiles)
    /\ IF CssFiles[cli.k] = "bad"
       THEN /\ cli' = [Exit(1, "uncaught") EXCEPT !.calls = Append(@, cli.k)]
            /\ EngineIdle
       ELSE /\ cli' = [cli EXCEPT !.stage = "file", !.calls = Append(@, cli.k)]
            /\ pc' = "parse"
            /\ ast' = EmptyDoc
            /\ cur' = Root
            /\ first' = <<>>
            /\ why' = <<>>
            /\ visits' = NoVisits
            /\ UNCHANGED <<vocab, run, walk, seen, seenDecls, changed, scans,
                           input, out1>>

\* dedup has returned: writeFileSync(filePath, deduplicated) and the report.
CliWrite ==
    /\ cli.stage = "file" /\ pc = "done"
    /\ cli' = [cli EXCEPT !.stage = "loop", !.k = @ + 1,
                          !.written = Append(@, cli.k),
                          !.ins = Append(@, input),
                          !.outs = Append(@, ast)]
    /\ pc' = "idle"
    /\ UNCHANGED <<vocab, ast, cur, run, walk, seen, seenDecls, changed, scans,
                   input, out1, first, why, visits>>

\* The loop is over: the totals are printed and the process ends.
CliSummary ==
    /\ cli.stage = "loop" /\ cli.k > Len(CssFiles)
    /\ cli' = Exit(0, "summary")
    /\ EngineIdle

InitBatch ==
    /\ cli \in {Cli("start", a, r, e) : a \in BOOLEAN, r \in BOOLEAN, e \in Directories}
    /\ vocab = VocabBatch
    /\ ast = EmptyDoc
    /\ cur = Root
    /\ pc = "idle"
    /\ run = 1
    /\ walk = <<>>
    /\ seen = {}
    /\ seenDecls = <<>>
    /\ changed = FALSE
    /\ scans = 0
    /\ input = EmptyDoc
    /\ out1 = EmptyDoc
    /\ first = <<>>
    /\ why = <<>>
    /\ visits = NoVisits

NextBatch ==
    \/ Next
    \/ CliArgs
    \/ CliList
    \/ CliRead
    \/ CliWrite
    \/ CliSummary

SpecBatch == InitBatch /\ [][NextBatch]_vars

\* ------------------------------------------------------------------ claims

RECURSIVE Attached(_, _)
\* The node is reachable from the root.
Attached(t, id) ==
    id = Root \/ (t[id].parent # None /\ Attached(t, t[id].parent))

RECURSIVE Chain(_, _)
\* The (name, params) pairs of the node's at-rule ancestors, outermost first.
Chain(t, id) ==
    LET p == t[id].parent IN
    IF p = None \/ p = Root THEN <<>>
    ELSE IF t[p].type = "atrule"
         THEN Append(Chain(t, p), <<t[p].name, t[p].params>>)
         ELSE Chain(t, p)

\* A declaration as (prop, value, important).
DeclOf(t, d) == <<t[d].prop, t[d].value, t[d].important>>

\* The node's direct declarations, in order.
DeclList(t, id) ==
    LET ds == DeclsOf(t, id) IN [i \in 1..Len(ds) |-> DeclOf(t, ds[i])]

\* Once has returned from its first run.
Returned == pc = "done" /\ run = 1

\* Pass 1's walk of the first run has ended; Pass 2 has not begun.
AfterPass1 == pc = "pass1" /\ walk = <<>> /\ run = 1

\* The units Pass 1 compares: rules and declaration-only at-rules.
Unit(t, id) == t[id].type = "rule" \/ DeclOnly(t, id)

Count(seq, x) == Cardinality({k \in DOMAIN seq : seq[k] = x})

\* The two nodes have the same declarations, in whatever order.
SameDecls(t, i, j) ==
    LET a == DeclList(t, i)
        b == DeclList(t, j)
    IN  Len(a) = Len(b) /\ \A k \in DOMAIN a : Count(a, a[k]) = Count(b, a[k])

\* The two nodes stand under the same chain of at-rules.
SameChain(t, i, j) == Chain(t, i) = Chain(t, j)

\* Exact duplicates: the same kind of unit, context chain, selector (or
\* name and parameters) and declarations.
Duplicates(t, i, j) ==
    /\ i # j /\ Unit(t, i) /\ Unit(t, j)
    /\ t[i].type = t[j].type
    /\ SameChain(t, i, j)
    /\ t[i].selector = t[j].selector
    /\ t[i].name = t[j].name /\ t[i].params = t[j].params
    /\ SameDecls(t, i, j)

\* The first of its duplicates in document order (ids follow that order).
FirstOfItsKind(t, i) == ~\E k \in DOMAIN t : k < i /\ Duplicates(t, k, i)

\* Two rules of one (context, selector) group.
SameGroup(t, i, j) ==
    /\ t[i].type = "rule" /\ t[j].type = "rule"
    /\ SameChain(t, i, j) /\ t[i].selector = t[j].selector

\* The rule or at-rule a removal is about: the node, or a declaration's parent.
UnitOf(id) == IF input[id].type = "decl" THEN input[id].parent ELSE id

\* Every node still has the children it was parsed with, less those removed,
\* in their parsed order.
KeepsOrder ==
    \A id \in Ids :
        ast[id].nodes = SelectSeq(input[id].nodes, LAMBDA c : ast[c].parent = id)

\* C1: Idempotence.  When Once has run on its own output, the tree is the one
\* the first run returned: the second run removed nothing.
C1_Idempotent == (pc = "done" /\ run = 2) => ast = out1

C3_ContextSensitive ==
    \A id \in DOMAIN why :
        (/\ why[id].by # None /\ input[UnitOf(id)].type = "rule"
         /\ DeclList(input, UnitOf(id)) # <<>>)
            => SameChain(input, UnitOf(id), UnitOf(why[id].by))

\* C4: Declaration order invariance.  When Pass 1 has ended, of two rules of
\* one group with the same declarations (one at least) in whatever order,
\* the later one has been removed and the first of them stands with its
\* declarations in order.
C4_OrderInvariant ==
    AfterPass1 =>
        \A i, j \in Ids :
            (/\ i < j /\ SameGroup(input, i, j) /\ SameDecls(input, i, j)
             /\ DeclList(input, i) # <<>> /\ FirstOfItsKind(input, i))
                => /\ ~Attached(ast, j)
                   /\ Attached(ast, i) /\ ast[i].nodes = input[i].nodes

\* C5: No cross-selector leakage.  No rule is removed, and no declaration is
\* stripped from a rule, on account of a rule with another selector.
C5_NoCrossSelector ==
    \A id \in DOMAIN why :
        (why[id].by # None /\ input[UnitOf(id)].type = "rule")
            => input[UnitOf(id)].selector = input[UnitOf(why[id].by)].selector

\* A declaration of a rule whose serialized form occurs earlier in the
\* document in a rule of the same group.
OccursEarlier(d) ==
    \E e \in Ids :
        /\ e < d /\ input[e].type = "decl"
        /\ SameGroup(input, input[e].parent, input[d].parent)
        /\ serializeDecl(input[e]) = serializeDecl(input[d])

RuleDecls == {d \in Ids : input[d].type = "decl" /\ input[input[d].parent].type = "rule"}

\* C6: Partial-overlap shrinkage.  After deduplicate a rule holds exactly
\* those of its declarations whose serialized form did not occur earlier in
\* its group, in their parsed order.
C6_Shrinkage ==
    Returned =>
        /\ KeepsOrder
        /\ \A d \in RuleDecls : Attached(ast, d) <=> ~OccursEarlier(d)

\* C7: Full-overlap removal.  A rule with declarations, each of which occurred
\* in an earlier rule of its group, is not in the tree after deduplicate.
C7_FullOverlap ==
    Returned =>
        \A r \in Ids :
            (/\ input[r].type = "rule" /\ DeclList(input, r) # <<>>
             /\ \A d \in RuleDecls : input[d].parent = r =>
                    \E e \in RuleDecls : /\ input[e].parent < r
                                         /\ SameGroup(input, input[e].parent, r)
                                         /\ serializeDecl(input[e]) = serializeDecl(input[d]))
                => ~Attached(ast, r)

\* C8: Container collapse.  After deduplicate no at-rule with an empty body
\* is left in the tree, at any depth.
C8_NoEmptyAtRule ==
    Returned =>
        \A id \in Ids :
            (Attached(ast, id) /\ ast[id].type = "atrule" /\ ast[id].body)
                => ast[id].nodes # <<>>

\* A duplicated rule went in Pass 1, then the container it left empty, and
\* in a later scan the container around that one.
C8_Witness ==
    /\ Returned /\ scans >= 3
    /\ \E r, c, cc \in DOMAIN why :
        /\ input[r].type = "rule" /\ why[r].stage = "pass1"
        /\ input[r].parent = c /\ why[c].stage = "cleanup"
        /\ input[c].parent = cc /\ why[cc].stage = "cleanup"

\* C9: Declaration-only at-rule dedup.  After deduplicate a declaration-only
\* at-rule is gone exactly when an earlier one has the same context, name,
\* parameters and declarations, and every at-rule left has all of its
\* declarations.
C9_AtRuleDedup ==
    Returned =>
        \A a \in Ids :
            /\ DeclOnly(input, a) =>
                (Attached(ast, a) <=> FirstOfItsKind(input, a))
            /\ (input[a].type = "atrule" /\ Attached(ast, a)) =>
                DeclsOf(ast, a) = DeclsOf(input, a)

\* Two identical rules in two at-rule nodes with the same chain.
Twins(i, j) ==
    /\ i < j /\ SameGroup(input, i, j) /\ SameDecls(input, i, j)
    /\ input[i].parent # input[j].parent
    /\ input[input[i].parent].type = "atrule"
    /\ input[input[j].parent].type = "atrule"

\* C10: Duplicates across container instances.  Once Pass 1 has ended, of
\* two identical rules in two at-rule nodes with the same chain Pass 1 has
\* removed the later one.
C10_AcrossContainers ==
    (run = 1 /\ (AfterPass1 \/ pc \in {"pass2", "cleanup", "done"})) =>
        \A i, j \in Ids :
            Twins(i, j) => (j \in DOMAIN why /\ why[j].stage = "pass1")

\* Pass 1 removed a rule with declarations on account of its twin in
\* another at-rule node, and the twin stands.
C10_Witness ==
    /\ AfterPass1
    /\ \E i, j \in Ids :
        /\ Twins(i, j) /\ DeclList(input, i) # <<>>
        /\ j \in DOMAIN why /\ why[j].by = i
        /\ Attached(ast, i)

\* No two rules of the tree share context and selector, and no two
\* declaration-only at-rules share context, name, parameters and declarations.
NothingShared(t) ==
    \A i, j \in DOMAIN t :
        i # j => /\ ~SameGroup(t, i, j)
                 /\ ~(DeclOnly(t, i) /\ Duplicates(t, i, j))

\* The declarations of the node are pairwise different.
DistinctDecls(t, id) ==
    LET ds == DeclList(t, id) IN
    \A k, l \in DOMAIN ds : k # l => ds[k] # ds[l]

\* Every rule has declarations, pairwise different, and every at-rule body
\* has a child.
WellFilled(t) ==
    \A i \in DOMAIN t :
        /\ t[i].type = "rule" => (DeclList(t, i) # <<>> /\ DistinctDecls(t, i))
        /\ (t[i].type = "atrule" /\ t[i].body) => t[i].nodes # <<>>

\* C11: Non-duplicated input is preserved.  A tree in which no two rules
\* share context and selector and no two declaration-only at-rules are alike
\* (its rules holding declarations, none twice, and its at-rule bodies a
\* child) is returned by deduplicate as it was parsed.
C11_NonDuplicatedPreserved ==
    (Returned /\ NothingShared(input) /\ WellFilled(input)) => ast = input

\* The callback is about to loop over the child list of a node that has
\* none (for ... of undefined): the one way Once could raise an error.
Throws ==
    /\ pc \in {"pass1", "pass2"} /\ walk # <<>>
    /\ LET top == walk[Len(walk)] IN
       \/ top.index \notin 1..Len(ast[top.node].nodes)
       \/ LET node == ast[top.node].nodes[top.index] IN
          /\ IF pc = "pass1" THEN Pass1Keyed(ast, node) ELSE Pass2Keyed(ast, node)
          /\ ~ast[node].body

\* The one node the root of the parsed tree holds.
Only == input[Root].nodes[1]

\* A rule with declarations, no two the same; a declaration-only at-rule; an
\* at-rule without a body.
Lasting(t, id) ==
    \/ t[id].type = "rule" /\ DeclList(t, id) # <<>> /\ DistinctDecls(t, id)
    \/ DeclOnly(t, id)
    \/ t[id].type = "atrule" /\ ~t[id].body

\* A rule without declarations; an at-rule with an empty body.
Hollow(t, id) ==
    \/ t[id].type = "rule" /\ DeclList(t, id) = <<>>
    \/ t[id].type = "atrule" /\ t[id].body /\ t[id].nodes = <<>>

\* C12, as stated: Once raises no error; the empty tree is returned empty,
\* and a tree whose root holds exactly one node is returned unchanged.
C12_OneNodeUnchanged ==
    /\ ~Throws
    /\ (Returned /\ input = EmptyDoc) => ast = EmptyDoc
    /\ (Returned /\ Len(input[Root].nodes) = 1) => ast = input

\* C12, amended: Once raises no error; the empty tree is returned empty; a
\* tree whose root holds exactly one node is returned unchanged when the node
\* is a rule with declarations (none twice), a declaration-only at-rule or an
\* at-rule without a body, and is returned empty when the node is a rule
\* without declarations or an at-rule with an empty body.
C12_Total ==
    /\ ~Throws
    /\ (Returned /\ input = EmptyDoc) => ast = EmptyDoc
    /\ (Returned /\ Len(input[Root].nodes) = 1) =>
            /\ Lasting(input, Only) => ast = input
            /\ Hollow(input, Only) => ast[Root].nodes = <<>>

\* A lone rule with two different declarations has been returned as parsed.
C12_Witness ==
    /\ Returned /\ Len(input[Root].nodes) = 1
    /\ input[Only].type = "rule" /\ Len(DeclList(input, Only)) >= 2
    /\ DistinctDecls(input, Only)
    /\ ast = input

\* The node has the texts it was parsed with.
SameTexts(id) ==
    /\ ast[id].type = input[id].type /\ ast[id].body = input[id].body
    /\ ast[id].selector = input[id].selector
    /\ ast[id].name = input[id].name /\ ast[id].params = input[id].params
    /\ ast[id].prop = input[id].prop /\ ast[id].value = input[id].value
    /\ ast[id].important = input[id].important

\* C13: Deletion only.  From the end of parsing on, the tree has the nodes it
\* was parsed with and no other; each has its texts and flag, and either its
\* parent or, once removed, none; every child list is the parsed one less
\* the children removed, in the parsed order.
C13_DeletionOnly ==
    pc # "parse" =>
        /\ DOMAIN ast = DOMAIN input
        /\ \A id \in Ids :
            /\ SameTexts(id)
            /\ ast[id].parent \in {input[id].parent, None}
        /\ KeepsOrder

\* Pass 1 has removed a rule with declarations from between two siblings
\* that stand.
C13_Witness ==
    /\ Returned
    /\ \E i, j, k \in Ids :
        /\ i < j /\ j < k
        /\ input[i].parent = input[j].parent /\ input[j].parent = input[k].parent
        /\ ast[j].parent = None /\ why[j].stage = "pass1"
        /\ DeclList(input, j) # <<>>
        /\ ast[i].parent = input[i].parent /\ ast[k].parent = input[k].parent
        /\ Attached(ast, i)

\* Two declarations of one property in rules of one (context, selector)
\* group of the parsed tree.
SameSlot(d, e) ==
    /\ d \in RuleDecls /\ e \in RuleDecls
    /\ SameGroup(input, input[d].parent, input[e].parent)
    /\ input[d].prop = input[e].prop

\* The declaration is in the tree, and none after it there shares its slot.
LastIn(t, d) ==
    /\ Attached(t, d)
    /\ ~\E e \in Ids : e > d /\ Attached(t, e) /\ SameSlot(d, e)

\* C14: Cascade order is preserved.  For every context chain, selector and
\* property (taking those no declaration of which is important, where the
\* last declaration is the one that applies), the last declaration among the
\* rules of that group in the tree deduplicate returns has the value and the
\* flag of the last one in the parsed tree.
C14_CascadeKept ==
    Returned =>
        \A d \in RuleDecls :
            (/\ LastIn(input, d)
             /\ \A e \in RuleDecls : SameSlot(d, e) => ~input[e].important)
                => \E e \in RuleDecls :
                    /\ SameSlot(d, e) /\ LastIn(ast, e)
                    /\ input[e].value = input[d].value
                    /\ input[e].important = input[d].important

\* C15: Shared declarations are stripped from later rules only.  The first
\* rule of each (context, selector) group (its declarations pairwise
\* different) has all of its declarations in the tree deduplicate returns.
C15_FirstKeepsAll ==
    Returned =>
        \A r \in Ids :
            (/\ input[r].type = "rule" /\ DistinctDecls(input, r)
             /\ ~\E q \in Ids : q < r /\ SameGroup(input, q, r))
                => \A d \in RuleDecls : input[d].parent = r => Attached(ast, d)

\* C16: Run isolation.  Two files of a batch with the same content are
\* written back with the same result, whatever was deduplicated between
\* them; the first file of a batch is deduplicated with nothing before it.
C16_RunIsolation ==
    \A i, j \in DOMAIN cli.outs :
        cli.ins[i] = cli.ins[j] => cli.outs[i] = cli.outs[j]

\* The third file has the content of the first, a rule with a declaration
\* that Once has kept both times; the file between them holds a rule with
\* the same selector and had something removed.
C16_Witness ==
    /\ Len(cli.outs) = 3
    /\ cli.ins[3] = cli.ins[1] /\ cli.ins[2] # cli.ins[1]
    /\ cli.outs[2] # cli.ins[2]
    /\ \E r \in DOMAIN cli.ins[1], q \in DOMAIN cli.ins[2] :
        /\ cli.ins[1][r].type = "rule" /\ DeclList(cli.ins[1], r) # <<>>
        /\ Attached(cli.outs[3], r)
        /\ cli.ins[2][q].type = "rule"
        /\ cli.ins[2][q].selector = cli.ins[1][r].selector

\* The indexes of the .css files, in the order of the listing.
AllFiles == [i \in 1..Len(CssFiles) |-> i]

\* No directory argument, a directory that cannot be read, or no .css file.
Refused == ~cli.arg \/ ~cli.readable \/ Len(CssFiles) = 0

\* Status 1 with the diagnostic of the case; dedup not called, no file
\* written.
Diagnosed ==
    /\ cli.status = 1
    /\ cli.message = IF ~cli.arg THEN "usage"
                     ELSE IF ~cli.readable THEN "unreadable" ELSE "nofiles"
    /\ cli.calls = <<>> /\ cli.written = <<>>

\* Status 0 after the summary; dedup called once on every .css file, in
\* order, and every one written.
Completed ==
    /\ cli.status = 0 /\ cli.message = "summary"
    /\ cli.calls = AllFiles /\ cli.written = AllFiles

\* Some .css file of the directory cannot be parsed.
SomeBad == \E k \in DOMAIN CssFiles : CssFiles[k] = "bad"

FirstBad ==
    CHOOSE k \in DOMAIN CssFiles :
        CssFiles[k] = "bad" /\ \A j \in 1..(k - 1) : CssFiles[j] # "bad"

\* `out` is what a whole run of Once leaves of `in`: the nodes of `in`, each
\* in its place or removed, no rule without declarations and no at-rule with
\* an empty body among those in place.
Finished(in, out) ==
    /\ DOMAIN out = DOMAIN in
    /\ \A id \in DOMAIN in :
        /\ out[id].parent \in {in[id].parent, None}
        /\ (Attached(out, id) /\ out[id].type = "rule") => DeclList(out, id) # <<>>
        /\ (Attached(out, id) /\ out[id].type = "atrule" /\ out[id].body)
                => out[id].nodes # <<>>

\* C18: No partial or degraded result per file.  Every file written is a
\* .css file that could be parsed, written once, after dedup was called on
\* it, with what a whole run of Once leaves of its own content; when a file
\* cannot be parsed the tool ends with status 1 on the uncaught failure,
\* that file and those after it not written and dedup not called on any file
\* after it.
C18_NoPartialResult ==
    /\ \A i \in DOMAIN cli.written :
        /\ cli.written[i] = i /\ CssFiles[i] = "css"
        /\ \E c \in DOMAIN cli.calls : cli.calls[c] = i
        /\ Finished(cli.ins[i], cli.outs[i])
    /\ (cli.stage = "exit" /\ ~Refused /\ SomeBad) =>
        /\ cli.status = 1 /\ cli.message = "uncaught"
        /\ cli.written = [i \in 1..(FirstBad - 1) |-> i]
        /\ cli.calls = [i \in 1..FirstBad |-> i]

\* The second of three .css files could not be parsed: the first is written,
\* shorter than it was, and the tool has ended with status 1.
C18_Witness ==
    /\ cli.stage = "exit" /\ cli.status = 1
    /\ CssFiles = <<"css", "bad", "css">>
    /\ cli.written = <<1>> /\ cli.outs[1] # cli.ins[1]

\* The nodes of the parsed tree Pass 1 builds a key for.
Eligible == {i \in DOMAIN input : Pass1Keyed(input, i)}

\* C19: Fingerprint exactness.  Two eligible nodes of the parsed tree have
\* the same Pass 1 key exactly when they are of the same kind, under the
\* same chain, with the same selector (or name and parameters) and the same
\* declarations in whatever order; their hashes are the same exactly when
\* their keys are.
C19_FingerprintExact ==
    pc # "parse" =>
        \A i, j \in Eligible :
            i # j =>
                /\ (Pass1Key(input, i) = Pass1Key(input, j)) <=> Duplicates(input, i, j)
                /\ (hash(Pass1Key(input, i)) = hash(Pass1Key(input, j)))
                        <=> (Pass1Key(input, i) = Pass1Key(input, j))

\* The node's direct declarations without their flags, in order.
Unflagged(t, id) ==
    LET ds == DeclsOf(t, id) IN
    [i \in 1..Len(ds) |-> <<t[ds[i]].prop, t[ds[i]].value>>]

\* The two lists hold the same elements, each as often.
SameBag(a, b) ==
    Len(a) = Len(b) /\ \A k \in DOMAIN a : Count(a, a[k]) = Count(b, a[k])

\* Two nodes of the parsed tree that differ only in the important flag: two
\* declarations of one property and value, or two rules or at-rules alike
\* but for the flags of their declarations.
FlagOnly(i, j) ==
    IF input[i].type = "decl"
    THEN /\ input[j].type = "decl"
         /\ input[i].prop = input[j].prop /\ input[i].value = input[j].value
         /\ input[i].important # input[j].important
    ELSE /\ input[i].type = input[j].type /\ SameChain(input, i, j)
         /\ input[i].selector = input[j].selector
         /\ input[i].name = input[j].name /\ input[i].params = input[j].params
         /\ SameBag(Unflagged(input, i), Unflagged(input, j))
         /\ ~SameBag(DeclList(input, i), DeclList(input, j))

\* C20: The important flag is part of a declaration's identity in both
\* passes.  No rule, at-rule or declaration is removed on account of a
\* counterpart that differs from it only in the important flag.
C20_ImportantDistinct ==
    \A id \in DOMAIN why :
        why[id].by # None => ~FlagOnly(id, why[id].by)

\* Two rules of one group, c:1 in the first and c:1 !important in the
\* second, both stand with their declarations when Once has returned.
C20_Witness ==
    /\ Returned
    /\ \E d, e \in RuleDecls :
        /\ d < e /\ input[d].parent # input[e].parent
        /\ SameSlot(d, e) /\ input[d].value = input[e].value
        /\ ~input[d].important /\ input[e].important
        /\ Attached(ast, d) /\ Attached(ast, e)

\* ---- C21

RECURSIVE Fell(_, _)
\* `id` or a node above it in the parsed tree was removed at one of `stages`.
Fell(id, stages) ==
    /\ id # Root
    /\ \/ id \in DOMAIN why /\ why[id].stage \in stages
       \/ Fell(input[id].parent, stages)

ByPass1 == {"pass1"}
ByPass2 == {"pass1", "pass2decl", "pass2rule"}

Range(seq) == {seq[i] : i \in 1..Len(seq)}

\* C21: the stages run one after the other.  While Pass 1 walks, Pass 2 and
\* the cleanup have not been called with any node, and while Pass 2 walks the
\* cleanup has not.  When Pass 2 starts, Pass 1 has been called exactly once
\* with every node it left attached, and when the cleanup starts, Pass 2 has
\* been called exactly once with every node it left attached.  Pass 2 is
\* called only with nodes Pass 1 left attached and the cleanup only with
\* nodes Pass 1 and Pass 2 left attached; no walk is called twice with one
\* node, and a removed node has no parent ever after.
C21_StageOrder ==
    /\ pc = "parse" => visits = NoVisits
    /\ pc = "pass1" => visits.pass2 = <<>> /\ visits.cleanup = <<>>
    /\ pc = "pass2" => visits.cleanup = <<>>
    /\ pc \in {"pass2", "cleanup", "done"} =>
          \A id \in DOMAIN input \ {Root} :
             ~Fell(id, ByPass1) => Count(visits.pass1, id) = 1
    /\ pc \in {"cleanup", "done"} =>
          \A id \in DOMAIN input \ {Root} :
             ~Fell(id, ByPass2) => Count(visits.pass2, id) = 1
    /\ \A id \in Range(visits.pass1) : Count(visits.pass1, id) = 1
    /\ \A id \in Range(visits.pass2) :
          Count(visits.pass2, id) = 1 /\ ~Fell(id, ByPass1)
    /\ \A id \in Range(visits.cleanup) : ~Fell(id, ByPass2)
    /\ \A id \in DOMAIN why : ast[id].parent = None

\* Once has returned after Pass 1 removed a node that has children and a
\* node after it, Pass 2 was called with nodes and the cleanup removed a node.
C21_Witness ==
    /\ Returned
    /\ \E id \in DOMAIN why :
          /\ why[id].stage = "pass1"
          /\ input[id].nodes # <<>>
          /\ \E k \in 1..(Len(input[input[id].parent].nodes) - 1) :
                input[input[id].parent].nodes[k] = id
    /\ visits.pass2 # <<>>
    /\ \E id \in DOMAIN why : why[id].stage = "cleanup"

\* ---- C22

\* C22: Pass 1 and Pass 2 build a key only for nodes that hang from the Root.
\* The node a walk is about to hand to its callback, if the callback goes on
\* to build a fingerprint or a group key for it (and so to add to the seen
\* set or to a group's declarations), can be reached from the Root: neither
\* it nor a node above it was removed earlier.
C22_DetachedSkipped ==
    /\ (pc = "pass1" /\ walk # <<>> /\ Pass1Keyed(ast, Current))
          => Attached(ast, Current)
    /\ (pc = "pass2" /\ walk # <<>> /\ Pass2Keyed(ast, Current))
          => Attached(ast, Current)

\* ---- C23

\* The step detaches `id` from its parent.
Removes(id) == ast[id].parent # None /\ ast'[id].parent = None

\* Every child of `id` is a declaration.
OnlyDecls(t, id) ==
    \A i \in 1..Len(t[id].nodes) : t[t[id].nodes[i]].type = "decl"

\* C23: what Pass 1 may touch.  A node a step of Pass 1 removes is, as it is
\* visited, a Rule whose children are all declarations or an at-rule that has
\* at least one child and only declarations for children: never a
\* declaration, an at-rule without a body, or a Rule or at-rule that holds a
\* Rule or an at-rule.  The step leaves every declaration as it is and every
\* node with the declarations it had, in their order.
C23_Pass1Frame ==
    [][pc = "pass1" =>
         \A id \in Ids :
            /\ Removes(id) =>
                  /\ ast[id].type \in {"rule", "atrule"}
                  /\ ast[id].type = "atrule" =>
                        ast[id].body /\ ast[id].nodes # <<>>
                  /\ OnlyDecls(ast, id)
            /\ ast[id].type = "decl" => ast'[id] = ast[id]
            /\ DeclsOf(ast', id) = DeclsOf(ast, id)]_vars

\* ---- C24

\* C24: what the cleanup may touch.  Every node the cleanup has removed is an
\* at-rule that has a body and no child; a node the cleanup did not remove
\* and no earlier pass removed still has its parent.  So the cleanup never
\* removes a Rule, a declaration, an at-rule without a body or an at-rule
\* that has a child.
C24_CleanupFrame ==
    /\ \A id \in DOMAIN why :
          why[id].stage = "cleanup" =>
             /\ ast[id].type = "atrule"
             /\ ast[id].body
             /\ ast[id].nodes = <<>>
    /\ \A id \in Ids \ {Root} : ast[id].parent = None => id \in DOMAIN why

\* Once has returned; the cleanup removed an at-rule, and an at-rule that
\* holds a Rule with a declaration is still in the tree.
C24_Witness ==
    /\ Returned
    /\ \E id \in DOMAIN why : why[id].stage = "cleanup"
    /\ \E m \in Ids, r \in Ids :
          /\ ast[m].type = "atrule" /\ ast[r].type = "rule"
          /\ Attached(ast, r) /\ ast[r].parent = m
          /\ ast[r].nodes # <<>>

\* ---- C25

\* The at-rules with a body of the parsed tree.
Containers == {id \in DOMAIN input : input[id].type = "atrule" /\ input[id].body}

\* The nodes the cleanup has removed.
Cleaned == {id \in DOMAIN why : why[id].stage = "cleanup"}

\* C25: Once returns on every document, and the cleanup loop is bounded.
\* Every scan of the cleanup but the last removes at least one at-rule with a
\* body, the at-rules it removes are at-rules of the parsed tree, and so the
\* loop makes at most one scan more than the tree has such at-rules; every
\* run that has started Pass 1 comes to its end.
C25_Terminates ==
    /\ [](pc \in {"cleanup", "done"} =>
            /\ Cleaned \subseteq Containers
            /\ (pc = "cleanup" /\ changed) => scans <= Cardinality(Cleaned)
            /\ scans <= Cardinality(Cleaned) + 1
            /\ scans <= Cardinality(Containers) + 1)
    /\ (pc = "pass1" ~> pc = "done")

\* Once has returned after three scans of the cleanup, the most a document
\* with two at-rules can need.
C25_Witness ==
    /\ Returned
    /\ scans = 3
    /\ Cardinality(Containers) = 2

\* ---- C26

\* The places <<rule, position>> of the declarations of the Rules that hang
\* from the Root of `t`.
Places(t) ==
    {pl \in (DOMAIN t) \X (1..Cardinality(DOMAIN t)) :
        /\ t[pl[1]].type = "rule" /\ Attached(t, pl[1])
        /\ pl[2] <= Len(DeclsOf(t, pl[1]))}

\* The serialized declaration at a place.
TextAt(t, pl) == serializeDecl(t[DeclsOf(t, pl[1])[pl[2]]])

\* C26: what Pass 2 leaves.  From the end of Pass 2 on, two different places
\* of declarations in Rules of one group (the same chain of at-rule
\* ancestors, entry by entry, and the same selector) never hold the same
\* serialized declaration, be they in two Rules or in one, and every Rule that
\* hangs from the Root has at least one declaration.
C26_Pass2Post ==
    (pc \in {"cleanup", "done"} /\ run = 1) =>
        /\ \A p \in Places(ast), q \in Places(ast) :
              (p # q /\ SameChain(ast, p[1], q[1])
                     /\ ast[p[1]].selector = ast[q[1]].selector)
                 => TextAt(ast, p) # TextAt(ast, q)
        /\ \A r \in Ids :
              (ast[r].type = "rule" /\ Attached(ast, r)) => DeclsOf(ast, r) # <<>>

\* Once has returned; Pass 2 removed a Rule it had emptied, and it removed a
\* declaration from a Rule that is still in the tree.
C26_Witness ==
    /\ Returned
    /\ \E r \in DOMAIN why : why[r].stage = "pass2rule" /\ input[r].nodes # <<>>
    /\ \E d \in DOMAIN why :
          /\ why[d].stage = "pass2decl"
          /\ Attached(ast, input[d].parent)

\* ---- C27

\* The declaration `d` of a Rule of the parsed tree is in a Rule of `t` that
\* hangs from the Root, under the same chain and the same selector.
StillStated(t, d) ==
    \E e \in DOMAIN t :
        /\ t[e].type = "decl" /\ Attached(t, e)
        /\ t[t[e].parent].type = "rule"
        /\ Chain(t, t[e].parent) = Chain(input, input[d].parent)
        /\ t[t[e].parent].selector = input[input[d].parent].selector
        /\ DeclOf(t, e) = DeclOf(input, d)

\* The declaration-only at-rule `m` of the parsed tree has its like in `t`:
\* an at-rule that hangs from the Root, of the same chain, name, parameters
\* and declarations.
StillDefined(t, m) ==
    \E k \in DOMAIN t :
        /\ DeclOnly(t, k) /\ Attached(t, k)
        /\ Chain(t, k) = Chain(input, m)
        /\ t[k].name = input[m].name /\ t[k].params = input[m].params
        /\ SameBag(DeclList(t, k), DeclList(input, m))

\* C27: no style information is lost.  When Once has returned, every
\* declaration of a Rule of the input is found, with its property, value and
\* important flag, in a Rule of the output with the same chain of at-rule
\* ancestors and the same selector, and every declaration-only at-rule of the
\* input has an at-rule of the same chain, name, parameters and declarations
\* in the output.
C27_NothingLost ==
    Returned =>
        /\ \A d \in RuleDecls : StillStated(ast, d)
        /\ \A m \in DOMAIN input : DeclOnly(input, m) => StillDefined(ast, m)

\* ---- C28

\* C28: group keys separate groups.  Two Rules that Pass 2 finds in the tree
\* and gives the same group key have the same chain of at-rule ancestors,
\* entry by entry, and the same selector.
C28_GroupKeysSeparate ==
    pc = "pass2" =>
        \A i \in Ids, j \in Ids :
            (/\ Pass2Keyed(ast, i) /\ Attached(ast, i)
             /\ Pass2Keyed(ast, j) /\ Attached(ast, j)
             /\ GroupKey(ast, i) = GroupKey(ast, j))
                => /\ Chain(ast, i) = Chain(ast, j)
                   /\ ast[i].selector = ast[j].selector

\* ---- C29

\* The trees that hang from the Roots of `a` and `b` are the same.
SameTree(a, b) ==
    \A id \in DOMAIN a :
        /\ Attached(a, id) <=> Attached(b, id)
        /\ Attached(a, id) => a[id].nodes = b[id].nodes

\* C29: Pass 1 is redundant for Rules.  The pipeline whose Pass 1 builds keys
\* for declaration-only at-rules alone returns, for the same parsed document,
\* the tree that Once returns.
C29_Pass1Redundant ==
    (pc = "done" /\ run = 2) => SameTree(ast, out1)

\* ---- C30

\* The at-rules of the tree that have no body (@import, @charset, ...).
Statements == {id \in Ids : ast[id].type = "atrule" /\ ~ast[id].body}

\* C30: an at-rule without a body is never removed.  At every moment of a
\* run it has the parent it was parsed under and hangs from the Root, no
\* stage has removed it, and no entry of the seen set was added for it.
C30_StatementsKept ==
    \A id \in Statements :
        /\ ast[id].parent # None /\ Attached(ast, id)
        /\ pc # "parse" => ast[id].parent = input[id].parent
        /\ id \notin DOMAIN why
        /\ \A e \in DOMAIN first : first[e] # id

\* Once has returned and has removed something, and two at-rules without a
\* body that have the same name and parameters stand under the same parent.
C30_Witness ==
    /\ Returned
    /\ why # <<>>
    /\ \E i \in Statements, j \in Statements :
          /\ i < j
          /\ ast[i].name = ast[j].name /\ ast[i].params = ast[j].params
          /\ ast[i].parent = ast[j].parent

====
